---- MODULE Spec2Model ----
(***************************************************************************)
(* Three64 Blender add-on: the custom-property store of a scene object and *)
(* the operators and helpers that write it                                 *)
(* (src/src/blender/three64_blender_addon.py, three64_live_link.py).       *)
(*                                                                         *)
(* Python strings are sequences of one-character strings, so that          *)
(* splitting, joining, prefix tests, str(int) and int(str) are computed.   *)
(* A Python value is the pair <<type tag, payload>>; a dict's payload is   *)
(* the sequence of its entries [k |-> key, v |-> value] in insertion       *)
(* order, with no key twice.                                               *)
(***************************************************************************)
EXTENDS Integers, Sequences, FiniteSets, TLC

VARIABLES
    obj,        \* the custom properties (ID properties) of context.object
    last,       \* the last operator executed: its inputs, its result, obj before it
    loaded,     \* which of the two add-on scripts is registered
    obj0,       \* obj when the session began
    added,      \* the component keys written by Add Selected Component, in order
    params,     \* argument of _flatten_params
    flat,       \* its return value
    tooltips,   \* argument param_tooltips of _tooltip_for_flat_key
    flat_key,   \* argument flat_key of _tooltip_for_flat_key
    tip,        \* its return value
    pc,         \* "ready" before a helper is called, "done" after
    name,       \* context.object.name
    component_data_dir, \* the add-on preference, as an absolute path
    fs,         \* the files on disk: path -> [exists, text]
    _cached_items,      \* the dropdown items (identifier, display name, description)
    _cached_dir_abs,    \* the directory the items were read from
    _cached_index,      \* identifier -> file path
    convert_axes,       \* scene.three64_nav_convert_axes
    verts,      \* bake: the welded vertices [x, y, z]
    tris,       \* bake: the flat list of triangle indices
    index_map   \* bake: quantized coordinate -> index into verts

vars == <<obj, last, loaded, obj0, added, params, flat, tooltips, flat_key, tip, pc, name,
         component_data_dir, fs, _cached_items, _cached_dir_abs, _cached_index,
         convert_axes, verts, tris, index_map>>

objVars == <<obj, last, loaded, obj0, added>>
cacheVars == <<component_data_dir, fs, _cached_items, _cached_dir_abs, _cached_index>>
bakeVars == <<convert_axes, verts, tris, index_map>>
sceneVars == <<name, cacheVars, bakeVars>>
helperVars == <<params, flat, tooltips, flat_key, tip, pc, sceneVars>>

-----------------------------------------------------------------------------
(* Bounds of the model *)

\* longest list among the values handed to _flatten_params
MaxListLen == 4

-----------------------------------------------------------------------------
(* Python values *)

PyStr(s) == <<"str", s>>
PyInt(n) == <<"int", n>>
\* the float n + 0.5 (floats are carried, compared and printed, never computed with)
PyFloat(n) == <<"float", n>>
PyBool(b) == <<"bool", b>>
PyNone == <<"none", 0>>
PyList(s) == <<"list", s>>
PyDict(d) == <<"dict", d>>

\* type(x) and the payload of x
Ty(x) == x[1]
Val(x) == x[2]

\* isinstance(v, (str, int, float, bool))
IsPrimitive(v) == Ty(v) \in {"str", "int", "float", "bool"}

\* isinstance(x, (int, float)): bool is a subclass of int in Python
IsNumber(x) == Ty(x) \in {"int", "float", "bool"}

-----------------------------------------------------------------------------
(* Python dicts *)

EmptyDict == <<>>

Entry(k, v) == [k |-> k, v |-> v]

DictKeys(d) == {d[i].k : i \in 1..Len(d)}

DictHas(d, k) == \E i \in 1..Len(d) : d[i].k = k

DictGet(d, k) == d[CHOOSE i \in 1..Len(d) : d[i].k = k].v

\* d[k] = v: an existing key keeps its place
DictSet(d, k, v) ==
    IF DictHas(d, k)
    THEN [i \in 1..Len(d) |-> IF d[i].k = k THEN Entry(k, v) ELSE d[i]]
    ELSE Append(d, Entry(k, v))

\* del d[k]
DictDel(d, k) == SelectSeq(d, LAMBDA e : e.k # k)

\* d.update(e)
RECURSIVE DictUpdate(_, _)
DictUpdate(d, e) ==
    IF e = <<>> THEN d
    ELSE DictUpdate(DictSet(d, Head(e).k, Head(e).v), Tail(e))

-----------------------------------------------------------------------------
(* Python strings *)

DigitChars == <<"0", "1", "2", "3", "4", "5", "6", "7", "8", "9">>

\* str(n), f"{n}" for an int n >= 0
RECURSIVE str(_)
str(n) ==
    IF n < 10 THEN <<DigitChars[n + 1]>>
    ELSE str(n \div 10) \o <<DigitChars[(n % 10) + 1]>>

\* s.startswith(p)
StartsWith(s, p) == Len(s) >= Len(p) /\ SubSeq(s, 1, Len(p)) = p

\* s.split(sep) for a one-character sep
RECURSIVE SplitFrom(_, _, _)
SplitFrom(s, sep, cur) ==
    IF s = <<>> THEN <<cur>>
    ELSE IF Head(s) = sep THEN <<cur>> \o SplitFrom(Tail(s), sep, <<>>)
    ELSE SplitFrom(Tail(s), sep, Append(cur, Head(s)))

Split(s, sep) == SplitFrom(s, sep, <<>>)

\* sep.join(parts)
RECURSIVE Join(_, _)
Join(parts, sep) ==
    IF parts = <<>> THEN <<>>
    ELSE IF Len(parts) = 1 THEN parts[1]
    ELSE parts[1] \o <<sep>> \o Join(Tail(parts), sep)

UpperChars ==
    <<"A", "B", "C", "D", "E", "F", "G", "H", "I", "J", "K", "L", "M",
      "N", "O", "P", "Q", "R", "S", "T", "U", "V", "W", "X", "Y", "Z">>

LowerChars ==
    <<"a", "b", "c", "d", "e", "f", "g", "h", "i", "j", "k", "l", "m",
      "n", "o", "p", "q", "r", "s", "t", "u", "v", "w", "x", "y", "z">>

\* s.lower()
lower(s) ==
    [i \in 1..Len(s) |->
        IF \E j \in 1..Len(UpperChars) : UpperChars[j] = s[i]
        THEN LowerChars[CHOOSE j \in 1..Len(UpperChars) : UpperChars[j] = s[i]]
        ELSE s[i]]

IsDigit(c) == \E j \in 1..Len(DigitChars) : DigitChars[j] = c

\* s.isdigit()
isdigit(s) == s # <<>> /\ \A i \in 1..Len(s) : IsDigit(s[i])

\* int(s, 10) for a string of digits
RECURSIVE int(_)
int(s) ==
    IF s = <<>> THEN 0
    ELSE 10 * int(SubSeq(s, 1, Len(s) - 1))
         + (CHOOSE j \in 1..Len(DigitChars) : DigitChars[j] = s[Len(s)]) - 1

IsSpace(c) == c = " "

\* s.strip()
RECURSIVE strip(_)
strip(s) ==
    IF s = <<>> THEN s
    ELSE IF IsSpace(Head(s)) THEN strip(Tail(s))
    ELSE IF IsSpace(s[Len(s)]) THEN strip(SubSeq(s, 1, Len(s) - 1))
    ELSE s

-----------------------------------------------------------------------------
(* json.dumps with its default separators *)

RECURSIVE EscapeJson(_)
EscapeJson(s) ==
    IF s = <<>> THEN <<>>
    ELSE (IF Head(s) \in {"\"", "\\"} THEN <<"\\", Head(s)>> ELSE <<Head(s)>>)
         \o EscapeJson(Tail(s))

RECURSIVE json_dumps(_)
RECURSIVE DumpItems(_)
RECURSIVE DumpEntries(_)

DumpItems(s) ==
    IF s = <<>> THEN <<>>
    ELSE IF Len(s) = 1 THEN json_dumps(s[1])
    ELSE json_dumps(s[1]) \o <<",", " ">> \o DumpItems(Tail(s))

DumpEntries(d) ==
    IF d = <<>> THEN <<>>
    ELSE LET e == <<"\"">> \o EscapeJson(d[1].k) \o <<"\"", ":", " ">> \o json_dumps(d[1].v)
         IN IF Len(d) = 1 THEN e ELSE e \o <<",", " ">> \o DumpEntries(Tail(d))

json_dumps(v) ==
    CASE Ty(v) = "none" -> <<"n", "u", "l", "l">>
      [] Ty(v) = "bool" -> IF Val(v) THEN <<"t", "r", "u", "e">> ELSE <<"f", "a", "l", "s", "e">>
      [] Ty(v) = "int" -> str(Val(v))
      [] Ty(v) = "float" -> str(Val(v)) \o <<".", "5">>
      [] Ty(v) = "str" -> <<"\"">> \o EscapeJson(Val(v)) \o <<"\"">>
      [] Ty(v) = "list" -> <<"[">> \o DumpItems(Val(v)) \o <<"]">>
      [] Ty(v) = "dict" -> <<"{">> \o DumpEntries(Val(v)) \o <<"}">>

-----------------------------------------------------------------------------
(* json.loads, for texts made of objects, arrays, strings without escapes,   *)
(* non-negative integers, true, false, null and spaces                       *)

ParseFail == [ok |-> FALSE, val |-> PyNone, rest |-> <<>>]
ParseOk(v, rest) == [ok |-> TRUE, val |-> v, rest |-> rest]

RECURSIVE SkipWs(_)
SkipWs(s) == IF s # <<>> /\ IsSpace(Head(s)) THEN SkipWs(Tail(s)) ELSE s

RECURSIVE DigitRun(_)
DigitRun(s) ==
    IF s # <<>> /\ IsDigit(Head(s)) THEN <<Head(s)>> \o DigitRun(Tail(s)) ELSE <<>>

\* s begins with a digit; a leading 0 is a number by itself
ParseNumber(s) ==
    IF Head(s) = "0" THEN ParseOk(PyInt(0), Tail(s))
    ELSE ParseOk(PyInt(int(DigitRun(s))), SubSeq(s, Len(DigitRun(s)) + 1, Len(s)))

\* s begins with a double quote
ParseString(s) ==
    LET closing == {j \in 2..Len(s) : s[j] = "\""}
    IN IF closing = {} THEN ParseFail
       ELSE LET j == CHOOSE n \in closing : \A m \in closing : n <= m
            IN ParseOk(PyStr(SubSeq(s, 2, j - 1)), SubSeq(s, j + 1, Len(s)))

RECURSIVE ParseValue(_)
RECURSIVE ParseItems(_, _)
RECURSIVE ParseMembers(_, _)

\* after "[" or ",": the next item, then "," or "]"
ParseItems(s, acc) ==
    LET r == ParseValue(s)
        s2 == SkipWs(r.rest)
    IN IF ~r.ok \/ s2 = <<>> THEN ParseFail
       ELSE IF Head(s2) = "," THEN ParseItems(Tail(s2), Append(acc, r.val))
       ELSE IF Head(s2) = "]" THEN ParseOk(PyList(Append(acc, r.val)), Tail(s2))
       ELSE ParseFail

\* after "{" or ",": "key": value, then "," or "}"
ParseMembers(s, acc) ==
    IF s = <<>> \/ Head(s) # "\"" THEN ParseFail
    ELSE LET k == ParseString(s)
             s2 == SkipWs(k.rest)
         IN IF ~k.ok \/ s2 = <<>> \/ Head(s2) # ":" THEN ParseFail
            ELSE LET r == ParseValue(Tail(s2))
                     s3 == SkipWs(r.rest)
                     acc2 == DictSet(acc, Val(k.val), r.val)
                 IN IF ~r.ok \/ s3 = <<>> THEN ParseFail
                    ELSE IF Head(s3) = "," THEN ParseMembers(SkipWs(Tail(s3)), acc2)
                    ELSE IF Head(s3) = "}" THEN ParseOk(PyDict(acc2), Tail(s3))
                    ELSE ParseFail

ParseValue(s) ==
    LET s1 == SkipWs(s)
    IN IF s1 = <<>> THEN ParseFail
       ELSE IF Head(s1) = "[" THEN
            (IF SkipWs(Tail(s1)) # <<>> /\ Head(SkipWs(Tail(s1))) = "]"
             THEN ParseOk(PyList(<<>>), Tail(SkipWs(Tail(s1))))
             ELSE ParseItems(Tail(s1), <<>>))
       ELSE IF Head(s1) = "{" THEN
            (IF SkipWs(Tail(s1)) # <<>> /\ Head(SkipWs(Tail(s1))) = "}"
             THEN ParseOk(PyDict(<<>>), Tail(SkipWs(Tail(s1))))
             ELSE ParseMembers(SkipWs(Tail(s1)), <<>>))
       ELSE IF Head(s1) = "\"" THEN ParseString(s1)
       ELSE IF IsDigit(Head(s1)) THEN ParseNumber(s1)
       ELSE IF StartsWith(s1, <<"t", "r", "u", "e">>)
            THEN ParseOk(PyBool(TRUE), SubSeq(s1, 5, Len(s1)))
       ELSE IF StartsWith(s1, <<"f", "a", "l", "s", "e">>)
            THEN ParseOk(PyBool(FALSE), SubSeq(s1, 6, Len(s1)))
       ELSE IF StartsWith(s1, <<"n", "u", "l", "l">>)
            THEN ParseOk(PyNone, SubSeq(s1, 5, Len(s1)))
       ELSE ParseFail

\* json.loads(s): ok is FALSE where json.loads raises
json_loads(s) ==
    LET r == ParseValue(s)
    IN IF r.ok /\ SkipWs(r.rest) = <<>> THEN ParseOk(r.val, <<>>) ELSE ParseFail

-----------------------------------------------------------------------------
(* _flatten_params *)

\* base = prefix + "." if prefix else ""
\* mutant: the prefix is forgotten in the recursion
BaseDropPrefix(prefix) == <<>>
Base(prefix) == IF prefix # <<>> THEN prefix \o <<".">> ELSE <<>>

\* out[nk] = "" if v is None else v
LeafValue(v) == IF Ty(v) = "none" THEN PyStr(<<>>) ELSE v

\* use_axes = len(v) in (3, 4) and all(isinstance(x, (int, float)) for x in v)
UseAxes(v) == Len(v) \in {3, 4} /\ \A i \in 1..Len(v) : IsNumber(v[i])

AxisNames == <<"x", "y", "z", "w">>

\* suffix = ("x","y","z","w")[idx] if use_axes else str(idx), idx counted from 0
ListSuffix(v, idx) == IF UseAxes(v) THEN <<AxisNames[idx + 1]>> ELSE str(idx)

\* a list item: primitives and None as LeafValue, anything else as its JSON text
\* mutant: a nested list item is stored as it is
ItemValueRaw(item) == item
ItemValue(item) ==
    IF IsPrimitive(item) \/ Ty(item) = "none" THEN LeafValue(item)
    ELSE PyStr(json_dumps(item))

\* for idx, item in enumerate(v): out[f"{nk}.{suffix}"] = ...
RECURSIVE FlattenList(_, _, _, _)
FlattenList(v, nk, idx, out) ==
    IF idx >= Len(v) THEN out
    ELSE FlattenList(v, nk, idx + 1,
             DictSet(out, nk \o <<".">> \o ListSuffix(v, idx), ItemValue(v[idx + 1])))

RECURSIVE _flatten_params(_, _)
RECURSIVE FlattenItems(_, _, _)

\* for k, v in params.items(): ...  (every key of a JSON object is a str)
FlattenItems(items, base, out) ==
    IF items = <<>> THEN out
    ELSE LET nk == base \o Head(items).k
             v == Head(items).v
             out1 == IF IsPrimitive(v) \/ Ty(v) = "none" THEN DictSet(out, nk, LeafValue(v))
                     ELSE IF Ty(v) = "list" THEN FlattenList(Val(v), nk, 0, out)
                     ELSE DictUpdate(out, _flatten_params(v, nk))
         IN FlattenItems(Tail(items), base, out1)

_flatten_params(p, prefix) ==
    IF Ty(p) = "dict" THEN FlattenItems(Val(p), Base(prefix), EmptyDict)
    ELSE <<Entry(IF prefix # <<>> THEN prefix ELSE <<"v", "a", "l", "u", "e">>, p)>>

-----------------------------------------------------------------------------
(* _tooltip_for_flat_key *)

\* while len(parts) > 1: parts = parts[:-1]; parent = ".".join(parts); ...
\* mutant: the walk starts at the root instead of the nearest parent
RECURSIVE WalkParentsRootFirst(_, _)
WalkParentsRootFirst(param_tooltips, parts) ==
    LET hits == {n \in 1..(Len(parts) - 1) :
                    DictHas(param_tooltips, Join(SubSeq(parts, 1, n), "."))}
    IN IF hits = {} THEN <<>>
       ELSE DictGet(param_tooltips,
                Join(SubSeq(parts, 1, CHOOSE n \in hits : \A m \in hits : n <= m), "."))

RECURSIVE WalkParents(_, _)
WalkParents(param_tooltips, parts) ==
    IF Len(parts) > 1
    THEN LET up == SubSeq(parts, 1, Len(parts) - 1)
             parent == Join(up, ".")
         IN IF DictHas(param_tooltips, parent) THEN DictGet(param_tooltips, parent)
            ELSE WalkParents(param_tooltips, up)
    ELSE <<>>

_tooltip_for_flat_key(param_tooltips, key) ==
    IF DictHas(param_tooltips, key) THEN DictGet(param_tooltips, key)
    ELSE WalkParents(param_tooltips, Split(key, "."))

-----------------------------------------------------------------------------
(* Strings used below *)

S_a == <<"a">>
S_b == <<"b">>
S_c == <<"c">>
S_q == <<"q">>
S_s == <<"s">>
S_x == <<"x">>
S_y == <<"y">>
S_0 == <<"0">>
S_a_b == <<"a", ".", "b">>
S_a_b_a == <<"a", ".", "b", ".", "a">>
S_empty == <<>>
S_component == <<"c", "o", "m", "p", "o", "n", "e", "n", "t">>
S_speed == <<"s", "p", "e", "e", "d">>
S_tags == <<"t", "a", "g", "s">>
S_target == <<"t", "a", "r", "g", "e", "t">>
S_agent == <<"a", "g", "e", "n", "t">>
S_door == <<"d", "o", "o", "r">>
S_lamp == <<"l", "a", "m", "p">>
S_NONE == <<"N", "O", "N", "E">>
S_hinge == <<"h", "i", "n", "g", "e">>
S_on == <<"o", "n">>
S_params == <<"p", "a", "r", "a", "m", "s">>
S_options == <<"o", "p", "t", "i", "o", "n", "s">>
S_name == <<"n", "a", "m", "e">>
S_title == <<"t", "i", "t", "l", "e">>
S_label == <<"l", "a", "b", "e", "l">>
S_type == <<"t", "y", "p", "e">>
S_script == <<"s", "c", "r", "i", "p", "t">>
S_paramDescriptions == <<"p", "a", "r", "a", "m", "D", "e", "s", "c", "r", "i", "p", "t", "i", "o", "n", "s">>
S_description == <<"d", "e", "s", "c", "r", "i", "p", "t", "i", "o", "n">>
S_display == <<"d", "i", "s", "p", "l", "a", "y">>
S_component_3 == <<"c", "o", "m", "p", "o", "n", "e", "n", "t", "_", "3">>
S_Component7 == <<"C", "o", "m", "p", "o", "n", "e", "n", "t", "7">>
S_events_dot == <<"e", "v", "e", "n", "t", "s", ".">>
S_navigable == <<"n", "a", "v", "i", "g", "a", "b", "l", "e">>
S_walk == <<"w", "a", "l", "k">>
S_emit == <<"e", "m", "i", "t">>
S_log == <<"l", "o", "g">>
S_go == <<"g", "o">>
S_true == <<"t", "r", "u", "e">>
S_false == <<"f", "a", "l", "s", "e">>
S_null == <<"n", "u", "l", "l">>
S_value == <<"v", "a", "l", "u", "e">>
S_lift == <<"l", "i", "f", "t">>
S_speed_2 == <<"s", "p", "e", "e", "d", "_", "2">>

\* all sequences over S of length at most n
SeqsUpTo(S, n) == UNION {[1..m -> S] : m \in 0..n}

-----------------------------------------------------------------------------
(* The helper _flatten_params called on a params dict read from a JSON file *)

\* values a JSON file can hold as a list item
ListItems ==
    {PyInt(1), PyFloat(0), PyBool(TRUE), PyStr(S_s), PyNone,
     PyList(<<PyInt(1)>>), PyDict(<<Entry(S_q, PyNone)>>)}

Primitives == {PyInt(1), PyInt(2), PyFloat(1), PyBool(FALSE), PyStr(S_s), PyStr(S_empty), PyNone}

Lists == {PyList(l) : l \in SeqsUpTo(ListItems, MaxListLen)}

NestedDicts ==
    {PyDict(<<>>),
     PyDict(<<Entry(S_b, PyInt(2))>>),
     PyDict(<<Entry(S_b, PyNone), Entry(S_c, PyStr(S_s))>>),
     PyDict(<<Entry(S_b, PyDict(<<Entry(S_c, PyInt(2))>>))>>),
     PyDict(<<Entry(S_b, PyDict(<<>>))>>),
     PyDict(<<Entry(S_b, PyList(<<>>))>>),
     PyDict(<<Entry(S_b, PyList(<<PyInt(1), PyInt(2), PyInt(3)>>))>>),
     PyDict(<<Entry(S_x, PyInt(1)), Entry(S_y, PyInt(2))>>),
     PyDict(<<Entry(S_0, PyInt(1))>>),
     PyDict(<<Entry(S_empty, PyInt(1))>>)}

FlattenKeys == {S_a, S_b, S_a_b, S_empty}

\* second entries of a two-entry params dict
SecondValues ==
    {PyInt(2), PyNone, PyList(<<PyInt(7), PyInt(8)>>), PyDict(<<Entry(S_b, PyInt(3))>>)}

FlattenInputs ==
    {PyDict(<<Entry(k, v)>>) : k \in FlattenKeys, v \in Primitives \cup Lists \cup NestedDicts}
    \cup {PyDict(<<Entry(k[1], v[1]), Entry(k[2], v[2])>>) :
            k \in {kk \in FlattenKeys \X FlattenKeys : kk[1] # kk[2]},
            v \in (NestedDicts \cup SecondValues) \X SecondValues}

\* what is remembered of the last operator executed
Last(op, result, pre, key, arg, raw, idx) ==
    [op |-> op, result |-> result, pre |-> pre, key |-> key, arg |-> arg, raw |-> raw, idx |-> idx]

Idle == Last("none", "NONE", EmptyDict, <<>>, <<>>, <<>>, 0)

NoObject == obj = EmptyDict /\ last = Idle /\ loaded = "none" /\ obj0 = EmptyDict /\ added = <<>>

NoCache ==
    /\ component_data_dir = <<>>
    /\ fs = <<>>
    /\ _cached_items = <<>>
    /\ _cached_dir_abs = <<>>
    /\ _cached_index = EmptyDict

NoBake == convert_axes = TRUE /\ verts = <<>> /\ tris = <<>> /\ index_map = EmptyDict

NoScene == name = <<>> /\ NoCache /\ NoBake

InitFlatten ==
    /\ params \in FlattenInputs
    /\ flat = EmptyDict
    /\ pc = "ready"
    /\ NoObject
    /\ NoScene
    /\ tooltips = EmptyDict /\ flat_key = <<>> /\ tip = <<>>

CallFlatten ==
    /\ pc = "ready"
    /\ flat' = _flatten_params(params, <<>>)
    /\ pc' = "done"
    /\ UNCHANGED <<objVars, params, tooltips, flat_key, tip, sceneVars>>

NextFlatten == CallFlatten

SpecFlatten == InitFlatten /\ [][NextFlatten]_vars

-----------------------------------------------------------------------------
(* The helper _tooltip_for_flat_key *)

\* longest flat key looked up
MaxKeyLen == 5

TooltipKeys == <<S_a, S_a_b, S_a_b_a, S_b, S_empty>>

\* the tooltip text stored for a key: its name in brackets; the one for "b" is empty
TooltipText(k) == IF k = S_b THEN <<>> ELSE <<"[">> \o k \o <<"]">>

TooltipMaps ==
    {[i \in 1..Len(ks) |-> Entry(ks[i], TooltipText(ks[i]))] :
        ks \in {SelectSeq(TooltipKeys, LAMBDA k : k \in S) :
                    S \in SUBSET {TooltipKeys[i] : i \in 1..Len(TooltipKeys)}}}

InitTooltip ==
    /\ tooltips \in TooltipMaps
    /\ flat_key \in SeqsUpTo({"a", "b", "."}, MaxKeyLen)
    /\ tip = <<>>
    /\ pc = "ready"
    /\ NoObject
    /\ NoScene
    /\ params = PyDict(EmptyDict) /\ flat = EmptyDict

CallTooltip ==
    /\ pc = "ready"
    /\ tip' = _tooltip_for_flat_key(tooltips, flat_key)
    /\ pc' = "done"
    /\ UNCHANGED <<objVars, params, flat, tooltips, flat_key, sceneVars>>

NextTooltip == CallTooltip

SpecTooltip == InitTooltip /\ [][NextTooltip]_vars

-----------------------------------------------------------------------------
(* Claims about _flatten_params (SpecFlatten) *)

\* the leaves of a nested params dict, each named by its path: the dict keys and
\* list positions leading to it. A primitive, a None, a list item, and a dict or
\* list with nothing in it are leaves.
\* the entries of the params dict
ParamEntries == Val(params)

RECURSIVE LeafPaths(_)
LeafPaths(d) ==
    UNION {LET seg == <<"key", d[i].k>>
               v == d[i].v
           IN IF Ty(v) = "dict" /\ Val(v) # <<>>
              THEN {<<seg>> \o q : q \in LeafPaths(Val(v))}
              ELSE IF Ty(v) = "list" /\ Val(v) # <<>>
              THEN {<<seg, <<"idx", j>>>> : j \in 0..(Len(Val(v)) - 1)}
              ELSE {<<seg>>}
           : i \in 1..Len(d)}

\* no key is empty or holds a ".", and no dict or list value is empty
RECURSIVE PlainKeysNoEmpty(_)
PlainKeysNoEmpty(d) ==
    \A i \in 1..Len(d) :
        /\ d[i].k # <<>>
        /\ \A j \in 1..Len(d[i].k) : d[i].k[j] # "."
        /\ Ty(d[i].v) = "list" => Val(d[i].v) # <<>>
        /\ Ty(d[i].v) = "dict" => (Val(d[i].v) # <<>> /\ PlainKeysNoEmpty(Val(d[i].v)))

\* C4 as stated: for every nested params dict, distinct leaf paths get distinct
\* dotted keys and no parameter is dropped, so the flat map has exactly one key
\* per leaf of the nested dict.
C4_FlattenReversible ==
    pc = "done" => Cardinality(DictKeys(flat)) = Cardinality(LeafPaths(ParamEntries))

\* C4 amended: when no key of the nested dict is empty or contains a "." and no
\* dict or list value is empty, distinct leaf paths get distinct dotted keys and
\* no parameter is dropped: the flat map has exactly one key per leaf.
C4_FlattenKeepsLeaves ==
    (pc = "done" /\ PlainKeysNoEmpty(ParamEntries))
        => Cardinality(DictKeys(flat)) = Cardinality(LeafPaths(ParamEntries))

C4_Witness ==
    /\ pc = "done"
    /\ PlainKeysNoEmpty(ParamEntries)
    /\ Ty(ParamEntries[1].v) = "dict"
    /\ Len(ParamEntries) = 2 /\ Ty(ParamEntries[2].v) = "list"
    /\ Len(flat) = 5

\* C5: the flat map of a dict holds primitive values only (str, int, float,
\* bool), never None, a dict or a list; a list flattens item by item, None to
\* the empty string and a non-primitive item to its JSON text; a None under a
\* key becomes the empty string; a dict under a key k is recursed into k.<key>.
C5_FlatValuesPrimitive ==
    pc = "done" =>
        /\ \A i \in 1..Len(flat) : IsPrimitive(flat[i].v)
        /\ (Len(ParamEntries) = 1 /\ Ty(ParamEntries[1].v) = "list") =>
              LET l == Val(ParamEntries[1].v)
              IN /\ Len(flat) = Len(l)
                 /\ \A i \in 1..Len(l) :
                       flat[i].v = (IF Ty(l[i]) = "none" THEN PyStr(<<>>)
                                    ELSE IF Ty(l[i]) \in {"list", "dict"}
                                    THEN PyStr(json_dumps(l[i]))
                                    ELSE l[i])
        /\ (Len(ParamEntries) = 1 /\ Ty(ParamEntries[1].v) = "none") =>
              flat = <<Entry(ParamEntries[1].k, PyStr(<<>>))>>
        /\ (Len(ParamEntries) = 1 /\ ParamEntries[1].k # <<>> /\ Ty(ParamEntries[1].v) = "dict") =>
              \A j \in 1..Len(flat) :
                  StartsWith(flat[j].k, ParamEntries[1].k \o <<".">>)

C5_Witness ==
    /\ pc = "done"
    /\ Len(ParamEntries) = 1
    /\ Ty(ParamEntries[1].v) = "list"
    /\ \E i \in 1..Len(flat) :
          /\ Ty(Val(ParamEntries[1].v)[i]) = "dict"
          /\ flat[i].v = PyStr(<<"{", "\"", "q", "\"", ":", " ", "n", "u", "l", "l", "}">>)
    /\ \E i \in 1..Len(flat) : Ty(Val(ParamEntries[1].v)[i]) = "none" /\ flat[i].v = PyStr(<<>>)

\* a JSON number: an int or a float, not true or false
IsJsonNumber(x) == Ty(x) \in {"int", "float"}

\* C6: the items of a list under key a come out as a.0, a.1, ... in order,
\* except that a list of length 3 or 4 whose items are all numbers comes out as
\* a.x, a.y, a.z (and a.w); any other length, or any item that is not a number,
\* gives numeric suffixes.
C6_ListSuffixes ==
    (pc = "done" /\ Len(ParamEntries) = 1 /\ Ty(ParamEntries[1].v) = "list") =>
        LET l == Val(ParamEntries[1].v)
            axes == Len(l) \in {3, 4} /\ \A i \in 1..Len(l) : IsJsonNumber(l[i])
        IN /\ Len(flat) = Len(l)
           /\ \A i \in 1..Len(l) :
                 flat[i].k = ParamEntries[1].k \o <<".">>
                                \o (IF axes THEN <<AxisNames[i]>> ELSE str(i - 1))

-----------------------------------------------------------------------------
(* Claims about _tooltip_for_flat_key (SpecTooltip) *)

\* the lengths of the dotted prefixes of key that the map holds: the whole key,
\* or a proper prefix that a "." follows in key
PrefixHits(tt, key) ==
    {n \in 0..Len(key) :
        /\ n = Len(key) \/ key[n + 1] = "."
        /\ DictHas(tt, SubSeq(key, 1, n))}

\* C7: the helper returns tooltips[key] when key is present; otherwise the
\* tooltip of the nearest ancestor, the longest proper dotted prefix of key that
\* is present; otherwise the empty string.
C7_TooltipNearestAncestor ==
    pc = "done" =>
        LET hits == PrefixHits(tooltips, flat_key)
        IN tip = IF hits = {} THEN <<>>
                 ELSE DictGet(tooltips,
                          SubSeq(flat_key, 1, CHOOSE n \in hits : \A m \in hits : m <= n))

C7_Witness ==
    /\ pc = "done"
    /\ flat_key = S_a_b_a
    /\ DictKeys(tooltips) = {S_a, S_a_b}
    /\ tip = <<"[", "a", ".", "b", "]">>

-----------------------------------------------------------------------------
(* Component keys: component, component_2, component_3, ... *)

\* the index a key of the object counts for in _existing_component_indices, if any
ComponentIndexOfKey(k) ==
    IF k = S_component THEN {1}
    ELSE IF StartsWith(lower(k), S_component)
    THEN LET rest0 == SubSeq(k, Len(S_component) + 1, Len(k))
             rest == IF StartsWith(rest0, <<"_">>) THEN Tail(rest0) ELSE rest0
         IN IF isdigit(rest) /\ int(rest) >= 2 THEN {int(rest)} ELSE {}
    ELSE {}

_existing_component_indices(o) == UNION {ComponentIndexOfKey(o[i].k) : i \in 1..Len(o)}

SetMax(S) == CHOOSE n \in S : \A m \in S : m <= n

_next_component_index(o) ==
    IF _existing_component_indices(o) = {} THEN 1
    ELSE SetMax(_existing_component_indices(o)) + 1

_component_key_for_index(index) ==
    IF index = 1 THEN S_component ELSE S_component \o <<"_">> \o str(index)

_param_key_for_index(param_name, index) ==
    IF index = 1 THEN param_name ELSE param_name \o <<"_">> \o str(index)

-----------------------------------------------------------------------------
(* The component-data directory: <identifier>.json -> its parsed content *)

ComponentFiles ==
    <<Entry(S_agent,
          PyDict(<<Entry(S_name, PyStr(S_agent)),
                   Entry(S_params,
                       PyDict(<<Entry(S_speed, PyInt(5)),
                                Entry(S_tags, PyList(<<PyInt(1), PyInt(2)>>)),
                                Entry(S_target, PyNone)>>))>>)),
      Entry(S_door,
          PyDict(<<Entry(S_options,
                       PyDict(<<Entry(S_speed, PyInt(2)),
                                Entry(S_component_3, PyStr(S_hinge))>>))>>)),
      Entry(S_lamp,
          PyDict(<<Entry(S_title, PyStr(S_lamp)), Entry(S_on, PyBool(TRUE))>>)),
      Entry(S_lift,
          PyDict(<<Entry(S_params, PyDict(<<Entry(S_speed_2, PyInt(1))>>))>>))>>

MetaKeys ==
    {S_name, S_title, S_label, S_type, S_component, S_script,
     S_paramDescriptions, S_description, S_display}

\* _extract_params(data): the entries of the params dict
_extract_params(data) ==
    IF Ty(data) # "dict" THEN EmptyDict
    ELSE IF DictHas(Val(data), S_params) /\ Ty(DictGet(Val(data), S_params)) = "dict"
    THEN Val(DictGet(Val(data), S_params))
    ELSE IF DictHas(Val(data), S_options) /\ Ty(DictGet(Val(data), S_options)) = "dict"
    THEN Val(DictGet(Val(data), S_options))
    ELSE SelectSeq(Val(data), LAMBDA e : e.k \notin MetaKeys)

\* _get_params_for_identifier(identifier): {} when the directory has no such file
_get_params_for_identifier(identifier) ==
    IF DictHas(ComponentFiles, identifier)
    THEN _extract_params(DictGet(ComponentFiles, identifier))
    ELSE EmptyDict

-----------------------------------------------------------------------------
(* three64.add_selected_component *)

\* not (not isinstance(identifier, str) or not identifier or identifier == "NONE")
ValidIdentifier(identifier) == identifier # <<>> /\ identifier # S_NONE

\* live link: a primitive is stored as it is, None as "", anything else as JSON text
StoredValue(value) ==
    IF IsPrimitive(value) \/ Ty(value) = "none" THEN LeafValue(value)
    ELSE PyStr(json_dumps(value))

\* mutant: the test for an existing key is lost
ParamKeyPresentNever(o, prop_key) == FALSE

\* if prop_key in obj: continue
ParamKeyPresent(o, prop_key) == DictHas(o, prop_key)

\* for key, value in (params or {}).items(): ...
RECURSIVE AppendParams(_, _, _)
AppendParams(o, items, index) ==
    IF items = <<>> THEN o
    ELSE LET prop_key == _param_key_for_index(Head(items).k, index)
         IN AppendParams(
                IF ParamKeyPresent(o, prop_key) THEN o
                ELSE DictSet(o, prop_key, StoredValue(Head(items).v)),
                Tail(items), index)

\* most components added to one object
MaxAdds == 3

\* the dropdown's current value: a component file's name, "NONE", or nothing
Identifiers == {S_agent, S_door, S_lamp, S_lift, S_NONE, S_empty}

\* THREE64_OT_add_selected_component.execute of three64_blender_addon.py: after
\* the test of the identifier the method ends, so a valid identifier falls
\* through and the method returns None
AddSelectedComponent(identifier) ==
    /\ loaded = "addon"
    /\ obj' = obj
    /\ last' = Last("add_selected_component",
                    IF ValidIdentifier(identifier) THEN "NONE" ELSE "CANCELLED",
                    obj, <<>>, identifier, <<>>, 0)
    /\ UNCHANGED <<loaded, obj0, added, helperVars>>

\* THREE64_OT_add_selected_component.execute of three64_live_link.py
LiveLinkAddSelectedComponent(identifier) ==
    /\ loaded = "live_link"
    /\ IF ~ValidIdentifier(identifier)
       THEN /\ obj' = obj
            /\ added' = added
            /\ last' = Last("add_selected_component", "CANCELLED", obj, <<>>, identifier, <<>>, 0)
       ELSE LET index == _next_component_index(obj)
                comp_key == _component_key_for_index(index)
            IN /\ Len(added) < MaxAdds
               /\ obj' = AppendParams(DictSet(obj, comp_key, PyStr(identifier)),
                                      _get_params_for_identifier(identifier), index)
               /\ added' = Append(added, comp_key)
               /\ last' = Last("add_selected_component", "FINISHED", obj, comp_key,
                               identifier, <<>>, index)
    /\ UNCHANGED <<loaded, obj0, helperVars>>

-----------------------------------------------------------------------------
(* three64.mark_navigable *)

\* obj.get(key, default)
DictGetOr(d, k, default) == IF DictHas(d, k) THEN DictGet(d, k) ELSE default

\* bool(x)
Truthy(x) ==
    CASE Ty(x) = "bool" -> Val(x)
      [] Ty(x) = "int" -> Val(x) # 0
      [] Ty(x) = "float" -> TRUE
      [] Ty(x) = "none" -> FALSE
      [] OTHER -> Val(x) # <<>>

\* scene.three64_nav_prop_key; "navigable" when the scene has no such property
NavKeys == {S_navigable, S_walk}

\* THREE64_OT_mark_navigable.execute
MarkNavigable(prop_key) ==
    /\ loaded = "addon"
    /\ obj' = IF Truthy(DictGetOr(obj, prop_key, PyBool(FALSE)))
              THEN DictDel(obj, prop_key)
              ELSE DictSet(obj, prop_key, PyBool(TRUE))
    /\ last' = Last("mark_navigable", "FINISHED", obj, prop_key, <<>>, <<>>, 0)
    /\ UNCHANGED <<loaded, obj0, added, helperVars>>

\* the custom properties an object may carry when the session begins
StartObjects ==
    {EmptyDict,
     <<Entry(S_speed, PyInt(9))>>,
     <<Entry(S_component, PyStr(S_lamp)), Entry(S_on, PyBool(FALSE))>>,
     <<Entry(S_Component7, PyStr(S_door)), Entry(S_target, PyStr(S_x))>>,
     <<Entry(S_navigable, PyInt(1)), Entry(S_walk, PyInt(0))>>}

NoHelper ==
    /\ params = PyDict(EmptyDict) /\ flat = EmptyDict
    /\ tooltips = EmptyDict /\ flat_key = <<>> /\ tip = <<>> /\ pc = "ready"

Init ==
    /\ obj \in StartObjects
    /\ obj0 = obj
    /\ added = <<>>
    /\ last = Idle
    /\ loaded \in {"addon", "live_link"}
    /\ NoHelper
    /\ NoScene

Next ==
    \/ \E identifier \in Identifiers :
          \/ AddSelectedComponent(identifier)
          \/ LiveLinkAddSelectedComponent(identifier)
    \/ \E prop_key \in NavKeys : MarkNavigable(prop_key)

Spec == Init /\ [][Next]_vars

-----------------------------------------------------------------------------
(* Claims about three64.add_selected_component (Spec) *)

AddExecuted == last.op = "add_selected_component"

\* C1: in three64_blender_addon.py, executing the operator on an object whose
\* three64_component is a valid identifier stores the identifier under a new
\* component key (component or component_N), adds the keys of the component's
\* flattened parameters, and returns {'FINISHED'}.
C1_AddStoresComponent ==
    (loaded = "addon" /\ AddExecuted /\ ValidIdentifier(last.arg)) =>
        /\ last.result = "FINISHED"
        /\ \E index \in _existing_component_indices(obj) :
              LET comp_key == _component_key_for_index(index)
                  flattened == _flatten_params(PyDict(_get_params_for_identifier(last.arg)), <<>>)
              IN /\ ~DictHas(last.pre, comp_key)
                 /\ DictHas(obj, comp_key)
                 /\ DictGet(obj, comp_key) = PyStr(last.arg)
                 /\ \A i \in 1..Len(flattened) :
                       DictHas(obj, _param_key_for_index(flattened[i].k, index))

\* C2: Add Selected Component overrides nothing: every custom property the
\* object had before the call is still there afterwards, with the same value.
C2_AddKeepsExisting ==
    AddExecuted =>
        \A i \in 1..Len(last.pre) :
            /\ DictHas(obj, last.pre[i].k)
            /\ DictGet(obj, last.pre[i].k) = last.pre[i].v

\* an add that met a property named like one of the component's parameters
C2_Witness ==
    /\ AddExecuted
    /\ last.result = "FINISHED"
    /\ last.arg = S_agent
    /\ last.pre = <<Entry(S_speed, PyInt(9))>>
    /\ DictGet(obj, S_speed) = PyInt(9)
    /\ DictGet(obj, S_component) = PyStr(S_agent)
    /\ DictHas(obj, S_tags)

\* C3: the key written is component when the object has no component key, and
\* otherwise component_N with N one more than the largest component index in
\* use; the key is never already present; so k successive adds on an object
\* without components write exactly component, component_2, ..., component_k.
C3_IndexSuffixedKeys ==
    (loaded = "live_link" /\ AddExecuted /\ last.result = "FINISHED") =>
        /\ last.key = IF _existing_component_indices(last.pre) = {} THEN S_component
                      ELSE S_component \o <<"_">>
                               \o str(SetMax(_existing_component_indices(last.pre)) + 1)
        /\ ~DictHas(last.pre, last.key)
        /\ _existing_component_indices(obj0) = {} =>
              \A i \in 1..Len(added) :
                  added[i] = IF i = 1 THEN S_component ELSE S_component \o <<"_">> \o str(i)

\* C10: after three64.mark_navigable executes, the navigable custom property
\* (key 'navigable' by default) is True, whatever its value was before.
C10_NavigableSetTrue ==
    (last.op = "mark_navigable" /\ last.result = "FINISHED") =>
        /\ DictHas(obj, last.key)
        /\ DictGet(obj, last.key) = PyBool(TRUE)

-----------------------------------------------------------------------------
(* three64.event_set_string, three64.event_add_action, three64.event_remove_action *)

\* most actions held by the events of one object
MaxActions == 2

\* params of the new action, from the text of three64_action_params_json
ActionParams(params_raw) ==
    IF strip(params_raw) = <<>> THEN PyDict(EmptyDict)
    ELSE IF ~json_loads(params_raw).ok THEN PyDict(<<Entry(S_value, PyStr(params_raw))>>)
    ELSE IF Ty(json_loads(params_raw).val) \in {"dict", "list"} THEN json_loads(params_raw).val
    ELSE PyDict(EmptyDict)

\* cur_list: a copy of the list under prop, or [] when prop holds anything else
CurList(o, prop) ==
    IF Ty(DictGetOr(o, prop, PyNone)) = "list" THEN Val(DictGet(o, prop)) ELSE <<>>

\* {"type": action_id, "params": params}
Action(action_id, action_params) ==
    PyDict(<<Entry(S_type, PyStr(action_id)), Entry(S_params, action_params)>>)

\* mutant: the new action is put in front
AppendActionInFront(cur_list, action) == <<action>> \o cur_list

\* cur_list.append(...)
AppendAction(cur_list, action) == Append(cur_list, action)

\* mutant: the last action is removed whatever the index
ListPopLast(l, idx) == SubSeq(l, 1, Len(l) - 1)

\* cur.pop(idx) for 0 <= idx < len(cur)
ListPop(l, idx) == SubSeq(l, 1, idx) \o SubSeq(l, idx + 2, Len(l))

\* the actions held under all keys of the object
RECURSIVE TotalActions(_)
TotalActions(o) ==
    IF o = <<>> THEN 0
    ELSE (IF Ty(Head(o).v) = "list" THEN Len(Val(Head(o).v)) ELSE 0) + TotalActions(Tail(o))

\* THREE64_OT_event_set_string.execute
EventSetString(key_raw, emit_raw) ==
    /\ IF strip(key_raw) = <<>>
       THEN /\ obj' = obj
            /\ last' = Last("event_set_string", "CANCELLED", obj, <<>>, <<>>, <<>>, 0)
       ELSE /\ obj' = DictSet(obj, S_events_dot \o strip(key_raw), PyStr(strip(emit_raw)))
            /\ last' = Last("event_set_string", "FINISHED", obj,
                            S_events_dot \o strip(key_raw), strip(emit_raw), <<>>, 0)
    /\ UNCHANGED <<loaded, obj0, added, helperVars>>

\* THREE64_OT_event_add_action.execute
EventAddAction(key_raw, action_id_raw, params_raw) ==
    /\ IF strip(key_raw) = <<>> \/ strip(action_id_raw) = <<>>
       THEN /\ obj' = obj
            /\ last' = Last("event_add_action", "CANCELLED", obj, <<>>,
                            strip(action_id_raw), params_raw, 0)
       ELSE LET prop == S_events_dot \o strip(key_raw)
                action == Action(strip(action_id_raw), ActionParams(params_raw))
            IN /\ TotalActions(obj) < MaxActions
               /\ obj' = DictSet(obj, prop, PyList(AppendAction(CurList(obj, prop), action)))
               /\ last' = Last("event_add_action", "FINISHED", obj, prop,
                               strip(action_id_raw), params_raw, 0)
    /\ UNCHANGED <<loaded, obj0, added, helperVars>>

\* THREE64_OT_event_remove_action.execute
EventRemoveAction(event_key, index) ==
    /\ IF /\ StartsWith(event_key, S_events_dot)
          /\ Ty(DictGetOr(obj, event_key, PyNone)) = "list"
          /\ index >= 0
          /\ index < Len(Val(DictGet(obj, event_key)))
       THEN /\ obj' = DictSet(obj, event_key, PyList(ListPop(Val(DictGet(obj, event_key)), index)))
            /\ last' = Last("event_remove_action", "FINISHED", obj, event_key, <<>>, <<>>, index)
       ELSE /\ obj' = obj
            /\ last' = Last("event_remove_action", "CANCELLED", obj, event_key, <<>>, <<>>, index)
    /\ UNCHANGED <<loaded, obj0, added, helperVars>>

S_k == <<"k">>
S_j == <<"j">>
S_events_k == S_events_dot \o S_k
S_events_j == S_events_dot \o S_j

\* the text of three64_event_key
EventKeyTexts == {<<>>, <<" ", "k", " ">>, S_j}

\* the entries of the actions manifest offered by three64_action_id, and no choice
ActionIds == {<<>>, S_emit}

\* the text of three64_action_params_json
ParamsTexts ==
    {<<>>, <<"7">>, <<"x">>, <<"[", "1", "]">>,
     <<"{", "\"", "a", "\"", ":", " ", "1", "}">>}

\* the event_key property of a three64.event_remove_action button
RemoveKeys == {S_events_k, S_events_j, S_speed, <<>>}

EventStartObjects ==
    {EmptyDict,
     <<Entry(S_speed, PyInt(9)), Entry(S_events_j, PyStr(S_go))>>}

InitEvents ==
    /\ obj \in EventStartObjects
    /\ obj0 = obj
    /\ added = <<>>
    /\ last = Idle
    /\ loaded = "addon"
    /\ NoHelper
    /\ NoScene

NextEvents ==
    \/ \E key_raw \in EventKeyTexts, emit_raw \in {S_go} :
          EventSetString(key_raw, emit_raw)
    \/ \E key_raw \in EventKeyTexts, action_id \in ActionIds, params_raw \in ParamsTexts :
          EventAddAction(key_raw, action_id, params_raw)
    \/ \E event_key \in RemoveKeys, index \in (-1)..MaxActions :
          EventRemoveAction(event_key, index)

SpecEvents == InitEvents /\ [][NextEvents]_vars

-----------------------------------------------------------------------------
(* Claims about the event operators (SpecEvents) *)

\* C8: after three64.event_add_action succeeds for event key k on an object
\* whose events.k is a list L, events.k is L with exactly one element
\* {type: selected action id, params: parsed params} appended at the end; the
\* earlier actions keep their content and order.
C8_AddActionAppends ==
    (/\ last.op = "event_add_action"
     /\ last.result = "FINISHED"
     /\ DictHas(last.pre, last.key)
     /\ Ty(DictGet(last.pre, last.key)) = "list") =>
        LET L == Val(DictGet(last.pre, last.key))
            R == Val(DictGet(obj, last.key))
            new == R[Len(R)]
        IN /\ Ty(DictGet(obj, last.key)) = "list"
           /\ Len(R) = Len(L) + 1
           /\ \A i \in 1..Len(L) : R[i] = L[i]
           /\ Ty(new) = "dict"
           /\ DictKeys(Val(new)) = {S_type, S_params}
           /\ DictGet(Val(new), S_type) = PyStr(last.arg)
           /\ last.raw = <<"[", "1", "]">>
                 => DictGet(Val(new), S_params) = PyList(<<PyInt(1)>>)
           /\ last.raw = <<"{", "\"", "a", "\"", ":", " ", "1", "}">>
                 => DictGet(Val(new), S_params) = PyDict(<<Entry(S_a, PyInt(1))>>)
           /\ last.raw \in {<<>>, <<"7">>} => DictGet(Val(new), S_params) = PyDict(EmptyDict)
           /\ last.raw = <<"x">>
                 => DictGet(Val(new), S_params) = PyDict(<<Entry(S_value, PyStr(<<"x">>))>>)

\* an action appended behind a different one
C8_Witness ==
    /\ last.op = "event_add_action"
    /\ last.result = "FINISHED"
    /\ DictHas(last.pre, S_events_k)
    /\ DictGet(last.pre, S_events_k) = PyList(<<Action(S_emit, PyDict(EmptyDict))>>)
    /\ DictGet(obj, S_events_k)
         = PyList(<<Action(S_emit, PyDict(EmptyDict)), Action(S_emit, PyList(<<PyInt(1)>>))>>)

\* C9: three64.event_remove_action with event_key 'events.k' and an index i,
\* 0 <= i < len(L), L the list under events.k, leaves events.k equal to L with
\* exactly the i-th action removed, the others in their order, and changes no
\* other key.
C9_RemoveActionAtIndex ==
    (/\ last.op = "event_remove_action"
     /\ StartsWith(last.key, S_events_dot)
     /\ DictHas(last.pre, last.key)
     /\ Ty(DictGet(last.pre, last.key)) = "list"
     /\ 0 <= last.idx
     /\ last.idx < Len(Val(DictGet(last.pre, last.key)))) =>
        LET L == Val(DictGet(last.pre, last.key))
            R == Val(DictGet(obj, last.key))
        IN /\ last.result = "FINISHED"
           /\ Ty(DictGet(obj, last.key)) = "list"
           /\ Len(R) = Len(L) - 1
           /\ \A j \in 1..Len(R) : R[j] = IF j <= last.idx THEN L[j] ELSE L[j + 1]
           /\ DictKeys(obj) = DictKeys(last.pre)
           /\ \A k \in DictKeys(obj) \ {last.key} : DictGet(obj, k) = DictGet(last.pre, k)

\* the first of two different actions removed, beside another key
C9_Witness ==
    /\ last.op = "event_remove_action"
    /\ last.result = "FINISHED"
    /\ last.idx = 0
    /\ Len(Val(DictGet(last.pre, last.key))) = 2
    /\ Val(DictGet(last.pre, last.key))[1] # Val(DictGet(last.pre, last.key))[2]
    /\ DictGet(obj, last.key) = PyList(<<Val(DictGet(last.pre, last.key))[2]>>)
    /\ DictHas(obj, S_speed)

-----------------------------------------------------------------------------
(* three64.mark_collider, three64.set_rigidbody, three64.add_joint *)

S_collider == <<"c", "o", "l", "l", "i", "d", "e", "r">>
S_collision == <<"c", "o", "l", "l", "i", "s", "i", "o", "n">>
S_physics_dot == <<"p", "h", "y", "s", "i", "c", "s", ".">>
S_physics_collider == <<"p", "h", "y", "s", "i", "c", "s", ".", "c", "o", "l", "l", "i", "d", "e", "r">>
S_physics_collision == <<"p", "h", "y", "s", "i", "c", "s", ".", "c", "o", "l", "l", "i", "s", "i", "o", "n">>
S_physics_visible == <<"p", "h", "y", "s", "i", "c", "s", ".", "v", "i", "s", "i", "b", "l", "e">>
S_physics_mergeChildren == <<"p", "h", "y", "s", "i", "c", "s", ".", "m", "e", "r", "g", "e", "C", "h", "i", "l", "d", "r", "e", "n">>
S_physics_rigidbody_type == <<"p", "h", "y", "s", "i", "c", "s", ".", "r", "i", "g", "i", "d", "b", "o", "d", "y", ".", "t", "y", "p", "e">>
S_physics_rigidbody_shape == <<"p", "h", "y", "s", "i", "c", "s", ".", "r", "i", "g", "i", "d", "b", "o", "d", "y", ".", "s", "h", "a", "p", "e">>
S_physics_rigidbody_mass == <<"p", "h", "y", "s", "i", "c", "s", ".", "r", "i", "g", "i", "d", "b", "o", "d", "y", ".", "m", "a", "s", "s">>
S_physics_rigidbody_friction == <<"p", "h", "y", "s", "i", "c", "s", ".", "r", "i", "g", "i", "d", "b", "o", "d", "y", ".", "f", "r", "i", "c", "t", "i", "o", "n">>
S_physics_rigidbody_restitution == <<"p", "h", "y", "s", "i", "c", "s", ".", "r", "i", "g", "i", "d", "b", "o", "d", "y", ".", "r", "e", "s", "t", "i", "t", "u", "t", "i", "o", "n">>
S_physics_rigidbody_linearDamping == <<"p", "h", "y", "s", "i", "c", "s", ".", "r", "i", "g", "i", "d", "b", "o", "d", "y", ".", "l", "i", "n", "e", "a", "r", "D", "a", "m", "p", "i", "n", "g">>
S_physics_rigidbody_angularDamping == <<"p", "h", "y", "s", "i", "c", "s", ".", "r", "i", "g", "i", "d", "b", "o", "d", "y", ".", "a", "n", "g", "u", "l", "a", "r", "D", "a", "m", "p", "i", "n", "g">>
S_physics_layer == <<"p", "h", "y", "s", "i", "c", "s", ".", "l", "a", "y", "e", "r">>
S_physics_mask == <<"p", "h", "y", "s", "i", "c", "s", ".", "m", "a", "s", "k">>
S_physics_size == <<"p", "h", "y", "s", "i", "c", "s", ".", "s", "i", "z", "e">>
S_physics_radius == <<"p", "h", "y", "s", "i", "c", "s", ".", "r", "a", "d", "i", "u", "s">>
S_physics_height == <<"p", "h", "y", "s", "i", "c", "s", ".", "h", "e", "i", "g", "h", "t">>
S_physics_joint_dot == <<"p", "h", "y", "s", "i", "c", "s", ".", "j", "o", "i", "n", "t", ".">>
S_convex == <<"c", "o", "n", "v", "e", "x">>
S_box == <<"b", "o", "x">>
S_sphere == <<"s", "p", "h", "e", "r", "e">>
S_capsule == <<"c", "a", "p", "s", "u", "l", "e">>
S_dynamic == <<"d", "y", "n", "a", "m", "i", "c">>
S_static == <<"s", "t", "a", "t", "i", "c">>
S_p2p == <<"p", "2", "p">>
S_anchorA == <<"a", "n", "c", "h", "o", "r", "A">>
S_anchorB == <<"a", "n", "c", "h", "o", "r", "B">>
S_axisA == <<"a", "x", "i", "s", "A">>
S_axisB == <<"a", "x", "i", "s", "B">>
S_limits == <<"l", "i", "m", "i", "t", "s">>
S_mask_default == <<"6", "5", "5", "3", "5">>
S_vec_000 == <<"[", "0", ",", "0", ",", "0", "]">>
S_vec_010 == <<"[", "0", ",", "1", ",", "0", "]">>
S_vec_01 == <<"[", "0", ",", " ", "1", "]">>

\* most joints added to one object
MaxJoints == 2

\* the keys deleted by mark_collider with clear
ClearKeys ==
    <<S_collider, S_collision, S_physics_collider, S_physics_collision,
      S_physics_visible, S_physics_mergeChildren>>

\* for key in (...): if key in obj: del obj[key]
RECURSIVE DelKeys(_, _)
DelKeys(o, keys) == IF keys = <<>> THEN o ELSE DelKeys(DictDel(o, Head(keys)), Tail(keys))

\* THREE64_OT_mark_collider.execute
MarkCollider(shape, merge_children, visible, clear) ==
    /\ obj' = IF clear THEN DelKeys(obj, ClearKeys)
              ELSE DictUpdate(obj, <<Entry(S_collider, PyStr(shape)),
                                     Entry(S_physics_mergeChildren, PyBool(merge_children)),
                                     Entry(S_physics_visible, PyBool(visible))>>)
    /\ last' = Last("mark_collider", "FINISHED", obj, <<>>, shape, <<>>, IF clear THEN 1 ELSE 0)
    /\ UNCHANGED <<loaded, obj0, added, helperVars>>

\* the shape-specific entries of set_rigidbody; sizes, radius and height are 0.5
ShapeEntries(shape) ==
    (IF shape = S_box
     THEN <<Entry(S_physics_size, PyList(<<PyFloat(0), PyFloat(0), PyFloat(0)>>))>>
     ELSE IF shape \in {S_sphere, S_capsule} THEN <<Entry(S_physics_radius, PyFloat(0))>>
     ELSE <<>>)
    \o (IF shape = S_capsule THEN <<Entry(S_physics_height, PyFloat(0))>> ELSE <<>>)

\* THREE64_OT_set_rigidbody.execute; mass is mass + 0.5, the other floats are 0.5
SetRigidbody(body_type, shape, mass) ==
    /\ obj' = DictUpdate(obj,
                 <<Entry(S_physics_rigidbody_type, PyStr(body_type)),
                   Entry(S_physics_rigidbody_shape, PyStr(shape)),
                   Entry(S_physics_rigidbody_mass, PyFloat(mass)),
                   Entry(S_physics_rigidbody_friction, PyFloat(0)),
                   Entry(S_physics_rigidbody_restitution, PyFloat(0)),
                   Entry(S_physics_rigidbody_linearDamping, PyFloat(0)),
                   Entry(S_physics_rigidbody_angularDamping, PyFloat(0)),
                   Entry(S_physics_layer, PyInt(1)),
                   Entry(S_physics_mask, PyStr(S_mask_default))>> \o ShapeEntries(shape))
    /\ last' = Last("set_rigidbody", "FINISHED", obj, <<>>, shape, <<>>, 0)
    /\ UNCHANGED <<loaded, obj0, added, helperVars>>

\* int(s) for any string: surrounding spaces, an optional sign, then digits
IntOf(s) ==
    LET t == strip(s)
        signed == t # <<>> /\ Head(t) \in {"-", "+"}
        digits == IF signed THEN Tail(t) ELSE t
    IN IF isdigit(digits)
       THEN [ok |-> TRUE, val |-> IF signed /\ Head(t) = "-" THEN 0 - int(digits) ELSE int(digits)]
       ELSE [ok |-> FALSE, val |-> 0]

\* the loop over obj.keys() that finds the next joint index, from idx
RECURSIVE NextJointIndex(_, _)
NextJointIndex(o, idx) ==
    IF o = <<>> THEN idx
    ELSE LET k == Head(o).k
             i == IntOf(Split(k, ".")[3])
         IN IF StartsWith(k, S_physics_joint_dot) /\ i.ok /\ i.val >= idx
            THEN NextJointIndex(Tail(o), i.val + 1)
            ELSE NextJointIndex(Tail(o), idx)

\* _parse(s, fallback)
ParseList(s, fallback) ==
    IF json_loads(s).ok /\ Ty(json_loads(s).val) = "list" THEN json_loads(s).val ELSE fallback

Vec000 == PyList(<<PyInt(0), PyInt(0), PyInt(0)>>)
Vec010 == PyList(<<PyInt(0), PyInt(1), PyInt(0)>>)

\* the dict j built by add_joint; object_a, object_b are "" and anchor_b, axis_a,
\* axis_b keep their defaults
JointDef(joint_type, anchor_a, limits) ==
    <<Entry(S_type, PyStr(joint_type)), Entry(S_a, PyStr(<<>>)), Entry(S_b, PyStr(<<>>))>>
    \o (IF anchor_a # <<>> THEN <<Entry(S_anchorA, ParseList(anchor_a, Vec000))>> ELSE <<>>)
    \o <<Entry(S_anchorB, ParseList(S_vec_000, Vec000))>>
    \o (IF joint_type = S_hinge
        THEN <<Entry(S_axisA, ParseList(S_vec_010, Vec010)),
               Entry(S_axisB, ParseList(S_vec_010, Vec010))>>
        ELSE <<>>)
    \o (IF limits # <<>> /\ json_loads(limits).ok
        THEN <<Entry(S_limits, json_loads(limits).val)>> ELSE <<>>)

\* mutant: the next joint index is the largest one in use
JointKeyReuse(idx) == S_physics_joint_dot \o str(IF idx > 0 THEN idx - 1 ELSE idx)

\* f"physics.joint.{idx}"
JointKey(idx) == S_physics_joint_dot \o str(idx)

\* THREE64_OT_add_joint.execute
AddJoint(joint_type, anchor_a, limits) ==
    /\ Len(added) < MaxJoints
    /\ obj' = DictSet(obj, JointKey(NextJointIndex(obj, 0)),
                      PyDict(JointDef(joint_type, anchor_a, limits)))
    /\ added' = Append(added, JointKey(NextJointIndex(obj, 0)))
    /\ last' = Last("add_joint", "FINISHED", obj, JointKey(NextJointIndex(obj, 0)),
                    joint_type, limits, NextJointIndex(obj, 0))
    /\ UNCHANGED <<loaded, obj0, helperVars>>

\* custom properties the object may carry before the collider operators run
ColliderStartObjects ==
    {EmptyDict,
     <<Entry(S_speed, PyInt(9)), Entry(S_collision, PyStr(S_box)),
       Entry(S_physics_collider, PyStr(S_convex))>>,
     <<Entry(S_physics_joint_dot \o <<"0">>, PyStr(S_q)), Entry(S_collider, PyStr(S_box))>>}

InitCollider ==
    /\ obj \in ColliderStartObjects
    /\ obj0 = obj
    /\ added = <<>>
    /\ last = Idle
    /\ loaded = "addon"
    /\ NoHelper
    /\ NoScene

NextCollider ==
    \/ \E shape \in {S_convex, S_box}, merge_children \in BOOLEAN, clear \in BOOLEAN :
          MarkCollider(shape, merge_children, FALSE, clear)
    \/ \E shape \in {S_box, S_capsule, S_convex} : SetRigidbody(S_dynamic, shape, 1)

SpecCollider == InitCollider /\ [][NextCollider]_vars

\* custom properties the object may carry before joints are added
JointStartObjects ==
    {EmptyDict,
     <<Entry(S_speed, PyInt(9)), Entry(S_physics_joint_dot \o <<"x">>, PyInt(1))>>,
     <<Entry(S_physics_joint_dot \o <<"0", "7">>, PyStr(S_q)),
       Entry(S_physics_joint_dot \o <<"1", ".", "a">>, PyInt(0))>>,
     <<Entry(S_physics_joint_dot \o <<"-", "5">>, PyStr(S_q))>>}

InitJoint ==
    /\ obj \in JointStartObjects
    /\ obj0 = obj
    /\ added = <<>>
    /\ last = Idle
    /\ loaded = "addon"
    /\ NoHelper
    /\ NoScene

NextJoint ==
    \E joint_type \in {S_p2p, S_hinge}, anchor_a \in {<<>>, S_vec_000},
       limits \in {<<>>, S_vec_01, S_x} :
        AddJoint(joint_type, anchor_a, limits)

SpecJoint == InitJoint /\ [][NextJoint]_vars

-----------------------------------------------------------------------------
(* Claims about the physics operators (SpecCollider, SpecJoint) *)

\* C11: executing three64.mark_collider with clear=True removes the collider
\* and physics.* properties: afterwards the object has no key 'collider' or
\* 'collision' and no key beginning with 'physics.', and every other key is
\* unchanged.
C11_ClearRemovesPhysics ==
    (last.op = "mark_collider" /\ last.idx = 1) =>
        /\ \A k \in DictKeys(obj) :
              k \notin {S_collider, S_collision} /\ ~StartsWith(k, S_physics_dot)
        /\ \A i \in 1..Len(last.pre) :
              LET k == last.pre[i].k
              IN (k \notin {S_collider, S_collision} /\ ~StartsWith(k, S_physics_dot)) =>
                    DictHas(obj, k) /\ DictGet(obj, k) = last.pre[i].v

\* the integer indices of the joint keys of an object
JointIndices(o) ==
    {IntOf(Split(o[i].k, ".")[3]).val :
        i \in {j \in 1..Len(o) : /\ StartsWith(o[j].k, S_physics_joint_dot)
                                 /\ IntOf(Split(o[j].k, ".")[3]).ok}}

\* C12 as stated: add_joint writes physics.joint.N with N = 0 when the object
\* has no integer-indexed joint key and otherwise one more than the largest
\* existing joint index; the key written is never already present and no
\* earlier joint is overwritten.
C12_JointIndexNext ==
    last.op = "add_joint" =>
        /\ last.idx = IF JointIndices(last.pre) = {} THEN 0
                      ELSE SetMax(JointIndices(last.pre)) + 1
        /\ ~DictHas(last.pre, last.key)
        /\ \A i \in 1..Len(last.pre) :
              DictHas(obj, last.pre[i].k) /\ DictGet(obj, last.pre[i].k) = last.pre[i].v

\* C12 amended: N is the least integer >= 0 above every existing joint index
\* (0 when the object has no joint key with an integer index >= 0); the key
\* physics.joint.N is not present before the call and every property of the
\* object, earlier joints included, keeps its value.
C12_JointIndexAboveAll ==
    last.op = "add_joint" =>
        /\ last.idx = SetMax({0} \cup {n + 1 : n \in JointIndices(last.pre)})
        /\ last.key = S_physics_joint_dot \o str(last.idx)
        /\ ~DictHas(last.pre, last.key)
        /\ DictHas(obj, last.key)
        /\ \A i \in 1..Len(last.pre) :
              DictHas(obj, last.pre[i].k) /\ DictGet(obj, last.pre[i].k) = last.pre[i].v
        /\ \A i \in 1..Len(added) : \A j \in 1..Len(added) : i # j => added[i] # added[j]

\* a second joint added behind joint keys 07 and 1.a
C12_Witness ==
    /\ last.op = "add_joint"
    /\ Len(added) = 2
    /\ added = <<S_physics_joint_dot \o <<"8">>, S_physics_joint_dot \o <<"9">>>>
    /\ DictHas(obj, S_physics_joint_dot \o <<"0", "7">>)
    /\ Ty(DictGet(obj, S_physics_joint_dot \o <<"8">>)) = "dict"

-----------------------------------------------------------------------------
(* three64.insert_inst_tag *)

S_inst_open == <<"[", "i", "n", "s", "t">>
S_inst_eq == <<"[", "i", "n", "s", "t", "=">>
S_inst_a == <<"[", "i", "n", "s", "t", "=", "a", "]">>
S_eq_a_close == <<"=", "a", "]">>

\* most pieces a starting object name is made of
MaxNameTokens == 4

\* longest object name written (Blender cuts names at 63 bytes)
MaxNameLen == 40

\* the index of the first "]" of s, 0 when there is none
FirstClose(s) ==
    IF \E j \in 1..Len(s) : s[j] = "]"
    THEN CHOOSE j \in 1..Len(s) : s[j] = "]" /\ \A i \in 1..(j - 1) : s[i] # "]"
    ELSE 0

\* the length of the match of \s*\[inst\s*=\s*[^]]+\]\s* at the start of s, 0
\* when it does not match there
InstTagMatchLen(s) ==
    LET t == SkipWs(s)
    IN IF ~StartsWith(t, S_inst_open) THEN 0
       ELSE LET u == SkipWs(SubSeq(t, Len(S_inst_open) + 1, Len(t)))
            IN IF u = <<>> \/ Head(u) # "=" THEN 0
               ELSE LET v == Tail(u)
                        j == FirstClose(v)
                    IN IF j < 2 THEN 0
                       ELSE Len(s) - Len(SkipWs(SubSeq(v, j + 1, Len(v))))

\* re.sub(r"\s*\[inst\s*=\s*[^]]+\]\s*", " ", s)
RECURSIVE SubInstTags(_)
SubInstTags(s) ==
    IF s = <<>> THEN <<>>
    ELSE IF InstTagMatchLen(s) > 0
    THEN <<" ">> \o SubInstTags(SubSeq(s, InstTagMatchLen(s) + 1, Len(s)))
    ELSE <<Head(s)>> \o SubInstTags(Tail(s))

\* the name the operator gives to an object named n0
TaggedName(n0, key) ==
    strip((IF key # <<>> THEN S_inst_eq \o key \o <<"]", " ">> ELSE <<>>)
          \o strip(SubInstTags(n0)))

\* THREE64_OT_insert_inst_tag.execute
InsertInstTag(key) ==
    /\ Len(TaggedName(name, key)) <= MaxNameLen
    /\ name' = TaggedName(name, key)
    /\ last' = Last("insert_inst_tag", "FINISHED", obj, key, <<>>, name, 0)
    /\ UNCHANGED <<obj, loaded, obj0, added, params, flat, tooltips, flat_key, tip, pc, cacheVars, bakeVars>>

\* the pieces object names are put together from
NameTokens == {S_inst_open, S_inst_a, S_eq_a_close, <<" ">>, S_x}

RECURSIVE Concat(_)
Concat(parts) == IF parts = <<>> THEN <<>> ELSE Head(parts) \o Concat(Tail(parts))

\* the text of the operator's key property
InstKeys == {<<>>, S_k, <<"a", "]">>}

InitInstTag ==
    /\ name \in {Concat(parts) : parts \in SeqsUpTo(NameTokens, MaxNameTokens)}
    /\ NoCache
    /\ NoBake
    /\ obj = EmptyDict
    /\ obj0 = EmptyDict
    /\ added = <<>>
    /\ last = Idle
    /\ loaded = "addon"
    /\ NoHelper

NextInstTag == \E key \in InstKeys : InsertInstTag(key)

SpecInstTag == InitInstTag /\ [][NextInstTag]_vars

\* s holds the text [inst= and, at least one character later, a ]
HasInstTag(s) ==
    \E i \in 1..Len(s) :
        /\ StartsWith(SubSeq(s, i, Len(s)), S_inst_eq)
        /\ \E j \in (i + Len(S_inst_eq) + 1)..Len(s) : s[j] = "]"

\* C13: three64.insert_inst_tag inserts or replaces the tag: for any prior
\* name and any non-empty key the resulting name starts with [inst=key], holds
\* no other [inst=...] tag, and executing the operator again with the same key
\* leaves the name unchanged.
C13_InstTagReplaced ==
    (last.op = "insert_inst_tag" /\ last.key # <<>>) =>
        /\ StartsWith(name, S_inst_eq \o last.key \o <<"]">>)
        /\ ~HasInstTag(SubSeq(name, Len(S_inst_eq \o last.key) + 2, Len(name)))
        /\ TaggedName(name, last.key) = name

-----------------------------------------------------------------------------
(* The component-data cache: _ensure_cache, three64.reload_component_data *)

\* the characters of the model's paths, in code point order
CharOrder ==
    <<" ", "-", ".", "/">> \o DigitChars \o UpperChars \o <<"[", "]", "_">> \o LowerChars

Ord(c) == CHOOSE i \in 1..Len(CharOrder) : CharOrder[i] = c

\* a < b for two strings
RECURSIVE StrLess(_, _)
StrLess(a, b) ==
    IF b = <<>> THEN FALSE
    ELSE IF a = <<>> THEN TRUE
    ELSE IF Head(a) # Head(b) THEN Ord(Head(a)) < Ord(Head(b))
    ELSE StrLess(Tail(a), Tail(b))

\* mutant: the listing is left in descending order
RECURSIVE SortPathsDescending(_)
SortPathsDescending(S) ==
    IF S = {} THEN <<>>
    ELSE LET m == CHOOSE x \in S : \A y \in S \ {x} : StrLess(y, x)
         IN <<m>> \o SortPathsDescending(S \ {m})

\* files.sort()
RECURSIVE SortPaths(_)
SortPaths(S) ==
    IF S = {} THEN <<>>
    ELSE LET m == CHOOSE x \in S : \A y \in S \ {x} : StrLess(x, y)
         IN <<m>> \o SortPaths(S \ {m})

\* s.endswith(suffix)
EndsWith(s, suffix) ==
    Len(s) >= Len(suffix) /\ SubSeq(s, Len(s) - Len(suffix) + 1, Len(s)) = suffix

\* the largest index of character c in s, 0 when s has none
LastIndexOf(s, c) ==
    IF \E i \in 1..Len(s) : s[i] = c
    THEN CHOOSE i \in 1..Len(s) : s[i] = c /\ \A j \in (i + 1)..Len(s) : s[j] # c
    ELSE 0

\* os.path.basename(path), os.path.dirname(path)
basename(path) == SubSeq(path, LastIndexOf(path, "/") + 1, Len(path))
dirname(path) == SubSeq(path, 1, LastIndexOf(path, "/") - 1)

\* os.path.splitext(file_name)[0]
splitext(file_name) ==
    IF LastIndexOf(file_name, ".") > 1
    THEN SubSeq(file_name, 1, LastIndexOf(file_name, ".") - 1)
    ELSE file_name

S_dot_json == <<".", "j", "s", "o", "n">>
S_dir_d == <<"/", "d">>
S_dir_e == <<"/", "e">>
S_dir_n == <<"/", "n">>
S_d_a_json == <<"/", "d", "/", "a", ".", "j", "s", "o", "n">>
S_d_B_JSON == <<"/", "d", "/", "B", ".", "J", "S", "O", "N">>
S_d_c_txt == <<"/", "d", "/", "c", ".", "t", "x", "t">>
S_e_a_json == <<"/", "e", "/", "a", ".", "j", "s", "o", "n">>
S_Component_from == <<"C", "o", "m", "p", "o", "n", "e", "n", "t", " ", "f", "r", "o", "m", " ">>
T_named == <<"{", "\"", "n", "a", "m", "e", "\"", ":", " ", "\"", " ", "A", " ", "\"", "}">>
T_titled == <<"{", "\"", "n", "a", "m", "e", "\"", ":", " ", "\"", " ", "\"", ",", " ", "\"", "t", "i", "t", "l", "e", "\"", ":", " ", "\"", "T", "\"", "}">>
T_list == <<"[", "1", "]">>
T_bad == <<"{">>

\* the directories that exist, and the paths files come and go at
ExistingDirs == {S_dir_d, S_dir_e}
Paths == {S_d_a_json, S_d_B_JSON, S_d_c_txt, S_e_a_json}
PrefsDirs == {S_dir_d, S_dir_e, S_dir_n, <<>>}

\* what may be written to a path
FileTexts(path) ==
    IF path = S_d_a_json THEN {T_named, T_bad}
    ELSE IF path = S_d_B_JSON THEN {T_list}
    ELSE IF path = S_e_a_json THEN {T_titled}
    ELSE {T_named}

NoFile == [exists |-> FALSE, text |-> <<>>]
File(text) == [exists |-> TRUE, text |-> text]

\* _read_component_files(dir_path_abs) on the files f
_read_component_files(f, dir_path_abs) ==
    IF dir_path_abs = <<>> \/ dir_path_abs \notin ExistingDirs THEN <<>>
    ELSE SortPaths({path \in DOMAIN f :
                       /\ f[path].exists
                       /\ dirname(path) = dir_path_abs
                       /\ EndsWith(lower(basename(path)), S_dot_json)})

\* _derive_display_name(file_path, data), keys taken from position i on
RECURSIVE DisplayNameFrom(_, _, _)
DisplayNameFrom(file_path, data, keys) ==
    IF keys = <<>> THEN splitext(basename(file_path))
    ELSE IF /\ DictHas(data, Head(keys))
            /\ Ty(DictGet(data, Head(keys))) = "str"
            /\ strip(Val(DictGet(data, Head(keys)))) # <<>>
    THEN strip(Val(DictGet(data, Head(keys))))
    ELSE DisplayNameFrom(file_path, data, Tail(keys))

_derive_display_name(file_path, data) ==
    DisplayNameFrom(file_path, data, <<S_name, S_title, S_label>>)

\* the loop of _load_items_from_dir over the listed files
RECURSIVE LoadItems(_, _)
LoadItems(f, file_paths) ==
    IF file_paths = <<>> THEN <<>>
    ELSE LET file_path == Head(file_paths)
             data == json_loads(f[file_path].text)
         IN (IF data.ok
             THEN << <<splitext(basename(file_path)),
                       _derive_display_name(file_path,
                           IF Ty(data.val) = "dict" THEN Val(data.val) ELSE EmptyDict),
                       S_Component_from \o basename(file_path)>> >>
             ELSE <<>>)
            \o LoadItems(f, Tail(file_paths))

_load_items_from_dir(f, dir_path_abs) == LoadItems(f, _read_component_files(f, dir_path_abs))

\* the identifier -> path index built by _ensure_cache
RECURSIVE BuildIndex(_, _)
BuildIndex(index, file_paths) ==
    IF file_paths = <<>> THEN index
    ELSE BuildIndex(DictSet(index, splitext(basename(Head(file_paths))), PyStr(Head(file_paths))),
                    Tail(file_paths))

\* _ensure_cache(context) started with the cache <<items, dir, index>>, the
\* preference resolving to dir_path_abs: the cache it leaves
EnsureCache(dir_path_abs, items, dir, index) ==
    IF dir_path_abs # dir \/ items = <<>>
    THEN <<_load_items_from_dir(fs, dir_path_abs), dir_path_abs,
           BuildIndex(EmptyDict, _read_component_files(fs, dir_path_abs))>>
    ELSE <<items, dir, index>>

\* _enum_items: the dropdown is drawn
EnumItems ==
    LET cache == EnsureCache(component_data_dir, _cached_items, _cached_dir_abs, _cached_index)
    IN /\ _cached_items' = cache[1]
       /\ _cached_dir_abs' = cache[2]
       /\ _cached_index' = cache[3]
       /\ last' = Last("enum_items", "NONE", obj, <<>>, _cached_items, <<>>, 0)
       /\ UNCHANGED <<obj, loaded, obj0, added, params, flat, tooltips, flat_key, tip, pc,
                      name, component_data_dir, fs, bakeVars>>

\* THREE64_OT_reload_component_data.execute
ReloadComponentData ==
    LET cache == EnsureCache(component_data_dir, <<>>, <<>>, _cached_index)
    IN /\ _cached_items' = cache[1]
       /\ _cached_dir_abs' = cache[2]
       /\ _cached_index' = cache[3]
       /\ last' = Last("reload_component_data", "FINISHED", obj, <<>>, _cached_items, <<>>, 0)
       /\ UNCHANGED <<obj, loaded, obj0, added, params, flat, tooltips, flat_key, tip, pc,
                      name, component_data_dir, fs, bakeVars>>

\* the preference is edited: _on_prefs_changed runs as its update callback
PrefsChanged(dir) ==
    LET cache == EnsureCache(dir, <<>>, <<>>, _cached_index)
    IN /\ component_data_dir' = dir
       /\ _cached_items' = cache[1]
       /\ _cached_dir_abs' = cache[2]
       /\ _cached_index' = cache[3]
       /\ last' = Last("prefs_changed", "NONE", obj, dir, _cached_items, <<>>, 0)
       /\ UNCHANGED <<obj, loaded, obj0, added, params, flat, tooltips, flat_key, tip, pc,
                      name, fs, bakeVars>>

\* the user saves, replaces or deletes a file of a component-data directory
WriteFile(path, text) ==
    /\ fs' = [fs EXCEPT ![path] = File(text)]
    /\ last' = Last("write_file", "NONE", obj, path, _cached_items, <<>>, 0)
    /\ UNCHANGED <<obj, loaded, obj0, added, params, flat, tooltips, flat_key, tip, pc,
                   name, component_data_dir, _cached_items, _cached_dir_abs, _cached_index,
                   bakeVars>>

RemoveFile(path) ==
    /\ fs[path].exists
    /\ fs' = [fs EXCEPT ![path] = NoFile]
    /\ last' = Last("remove_file", "NONE", obj, path, _cached_items, <<>>, 0)
    /\ UNCHANGED <<obj, loaded, obj0, added, params, flat, tooltips, flat_key, tip, pc,
                   name, component_data_dir, _cached_items, _cached_dir_abs, _cached_index,
                   bakeVars>>

InitCache ==
    /\ fs = [path \in Paths |-> NoFile]
    /\ component_data_dir = S_dir_d
    /\ _cached_items = <<>>
    /\ _cached_dir_abs = <<>>
    /\ _cached_index = EmptyDict
    /\ NoBake
    /\ name = <<>>
    /\ obj = EmptyDict
    /\ obj0 = EmptyDict
    /\ added = <<>>
    /\ last = Idle
    /\ loaded = "addon"
    /\ NoHelper

NextCache ==
    \/ EnumItems
    \/ ReloadComponentData
    \/ \E path \in Paths : \E text \in FileTexts(path) : WriteFile(path, text)
    \/ \E path \in Paths : RemoveFile(path)
    \/ \E dir \in PrefsDirs : PrefsChanged(dir)

SpecCache == InitCache /\ [][NextCache]_vars

\* the JSON files of the configured directory that can be read now
ReadableNow ==
    {path \in Paths :
        /\ fs[path].exists
        /\ component_data_dir \in ExistingDirs
        /\ StartsWith(path, component_data_dir \o <<"/">>)
        /\ (EndsWith(path, S_dot_json) \/ EndsWith(path, <<".", "J", "S", "O", "N">>))
        /\ fs[path].text # T_bad}

\* the item a readable file of the model gives
ExpectedItem(path) ==
    IF path = S_d_a_json THEN <<S_a, <<"A">>, S_Component_from \o <<"a", ".", "j", "s", "o", "n">>>>
    ELSE IF path = S_d_B_JSON
    THEN <<<<"B">>, <<"B">>, S_Component_from \o <<"B", ".", "J", "S", "O", "N">>>>
    ELSE <<S_a, <<"T">>, S_Component_from \o <<"a", ".", "j", "s", "o", "n">>>>

\* C14: after three64.reload_component_data executes, the cached dropdown
\* items are exactly those of the current content of the configured
\* directory, one item per readable JSON file in sorted path order, whatever
\* was cached before.
C14_ReloadMatchesDirectory ==
    last.op = "reload_component_data" =>
        /\ Len(_cached_items) = Cardinality(ReadableNow)
        /\ \E order \in [1..Len(_cached_items) -> ReadableNow] :
              /\ \A i, j \in 1..Len(_cached_items) : i < j => StrLess(order[i], order[j])
              /\ \A i \in 1..Len(_cached_items) : _cached_items[i] = ExpectedItem(order[i])

\* a reload that replaced a cache of one item, out of date, by two items
C14_Witness ==
    /\ last.op = "reload_component_data"
    /\ Len(last.arg) = 1
    /\ Len(_cached_items) = 2
    /\ _cached_items[1][1] = <<"B">>
    /\ _cached_items[2][2] = <<"A">>

-----------------------------------------------------------------------------
(* three64.bake_navmesh_json: the triangle soup with welded vertices *)

\* most triangles emitted by one bake
MaxTriangles == 3

\* A coordinate is a whole number of thirds of quant (1e-5), so that no
\* coordinate lies half way between two quantized values; NaN stands for a
\* float that is not a number.
NaN == 1000

\* round(x / quant) for x = n thirds of quant
Quantize(n) == (n + 1) \div 3

\* key_from_xyz(x, y, z), in units of quant
key_from_xyz(x, y, z) == <<Quantize(x), Quantize(y), Quantize(z)>>

\* (tx, ty, tz) of emit_vertex
Transformed(co, axes) == IF axes THEN <<co[1], co[3], 0 - co[2]>> ELSE co

\* mutant: every vertex is appended, welded or not
EmitVertexNoWeld(co, axes, vs, imap) ==
    [idx |-> Len(vs),
     verts |-> Append(vs, Transformed(co, axes)),
     index_map |-> DictSet(imap, key_from_xyz(Transformed(co, axes)[1],
                                              Transformed(co, axes)[2],
                                              Transformed(co, axes)[3]), Len(vs))]

\* emit_vertex(co) with the lists vs, imap: the index returned and the lists
\* it leaves
emit_vertex(co, axes, vs, imap) ==
    LET t == Transformed(co, axes)
        k == key_from_xyz(t[1], t[2], t[3])
    IN IF DictGetOr(imap, k, -1) >= 0
       THEN [idx |-> DictGetOr(imap, k, -1), verts |-> vs, index_map |-> imap]
       ELSE [idx |-> Len(vs), verts |-> Append(vs, t), index_map |-> DictSet(imap, k, Len(vs))]

\* a vertex whose coordinates make round() raise
Raises(co) == \E i \in 1..3 : co[i] = NaN

\* the world normal of the triangle, not normalised
Normal(co) ==
    LET e0 == <<co[2][1] - co[1][1], co[2][2] - co[1][2], co[2][3] - co[1][3]>>
        e1 == <<co[3][1] - co[1][1], co[3][2] - co[1][2], co[3][3] - co[1][3]>>
    IN <<e0[2] * e1[3] - e0[3] * e1[2], e0[3] * e1[1] - e0[1] * e1[3],
         e0[1] * e1[2] - e0[2] * e1[1]>>

\* not (dot_up < slope_cos) for the default slope of 45 degrees; a comparison
\* with a NaN is false, so a triangle with a NaN is not filtered out
PassesSlope(co) ==
    IF \E i \in 1..3 : Raises(co[i]) THEN TRUE
    ELSE LET n == Normal(co)
         IN n[3] > 0 /\ 2 * n[3] * n[3] > n[1] * n[1] + n[2] * n[2] + n[3] * n[3]

\* the faces of the tagged meshes, in world space
P0 == <<0, 0, 0>>
P1 == <<1, 0, 0>>
P2 == <<9, 0, 0>>
P3 == <<0, 9, 0>>
P4 == <<0, 0, 3>>
P5 == <<0, 1, -1>>
PN == <<NaN, 0, 0>>

Faces ==
    {<<P0, P2, P3>>, <<P1, P3, P2>>, <<P1, P2, P3>>, <<P0, P2, P4>>,
     <<P2, P3, P4>>, <<P5, P2, P3>>, <<P0, P1, P2>>, <<P0, PN, P2>>, <<P2, P3, PN>>}

\* one pass of the loop over bm.faces: the slope test, then the three
\* emit_vertex calls and tris.extend; an exception raised by emit_vertex
\* leaves the loop after the vertices emitted so far
EmitFace(co) ==
    /\ Len(tris) < 3 * MaxTriangles
    /\ IF ~PassesSlope(co)
       THEN UNCHANGED <<verts, tris, index_map>>
       ELSE IF Raises(co[1])
       THEN UNCHANGED <<verts, tris, index_map>>
       ELSE LET r0 == emit_vertex(co[1], convert_axes, verts, index_map)
            IN IF Raises(co[2])
               THEN verts' = r0.verts /\ index_map' = r0.index_map /\ UNCHANGED tris
               ELSE LET r1 == emit_vertex(co[2], convert_axes, r0.verts, r0.index_map)
                    IN IF Raises(co[3])
                       THEN verts' = r1.verts /\ index_map' = r1.index_map /\ UNCHANGED tris
                       ELSE LET r2 == emit_vertex(co[3], convert_axes, r1.verts, r1.index_map)
                            IN /\ verts' = r2.verts
                               /\ index_map' = r2.index_map
                               /\ tris' = tris \o <<r0.idx, r1.idx, r2.idx>>
    /\ last' = Last("bake_face", "NONE", obj, <<>>, <<>>, co, Len(tris))
    /\ UNCHANGED <<obj, loaded, obj0, added, params, flat, tooltips, flat_key, tip, pc,
                   name, cacheVars, convert_axes>>

InitBake ==
    /\ convert_axes \in BOOLEAN
    /\ verts = <<>>
    /\ tris = <<>>
    /\ index_map = EmptyDict
    /\ name = <<>>
    /\ NoCache
    /\ obj = EmptyDict
    /\ obj0 = EmptyDict
    /\ added = <<>>
    /\ last = Idle
    /\ loaded = "addon"
    /\ NoHelper

NextBake == \E co \in Faces : EmitFace(co)

SpecBake == InitBake /\ [][NextBake]_vars

\* C15: after emitting any sequence of triangles the index list has a length
\* divisible by 3, every index is in [0, number of vertices), and no two
\* entries of the vertex list have the same quantized (1e-5) coordinate key.
C15_WeldedSoup ==
    /\ Len(tris) % 3 = 0
    /\ \A i \in 1..Len(tris) : 0 <= tris[i] /\ tris[i] < Len(verts)
    /\ \A i, j \in 1..Len(verts) :
          i # j => <<(verts[i][1] + 1) \div 3, (verts[i][2] + 1) \div 3, (verts[i][3] + 1) \div 3>>
                   # <<(verts[j][1] + 1) \div 3, (verts[j][2] + 1) \div 3, (verts[j][3] + 1) \div 3>>

\* two triangles emitted, a vertex of the second welded to one of the first,
\* and a triangle given up half way
C15_Witness ==
    /\ Len(tris) = 6
    /\ Len(verts) = 4
    /\ last.op = "bake_face"
    /\ last.raw = <<P0, PN, P2>>

-----------------------------------------------------------------------------
(* Claims about the parameter keys of several components (Spec) *)

\* the components Add Selected Component has put on the object: index -> identifier
AddedComponents ==
    {<<index, Val(DictGet(obj, _component_key_for_index(index)))>> :
        index \in {n \in _existing_component_indices(obj) :
                      /\ DictHas(obj, _component_key_for_index(n))
                      /\ \E i \in 1..Len(added) : added[i] = _component_key_for_index(n)}}

\* C16: parameter keys of different components on one object never collide:
\* for component indices i # j, a parameter p of component i and a parameter q
\* of component j, _param_key_for_index(p, i) # _param_key_for_index(q, j), so
\* every added component has its own stored value for each of its parameters.
C16_ParamKeysDisjoint ==
    loaded = "live_link" =>
        \A c1, c2 \in AddedComponents :
            c1[1] # c2[1] =>
                \A i1 \in 1..Len(_get_params_for_identifier(c1[2])) :
                    \A i2 \in 1..Len(_get_params_for_identifier(c2[2])) :
                        _param_key_for_index(_get_params_for_identifier(c1[2])[i1].k, c1[1])
                            # _param_key_for_index(_get_params_for_identifier(c2[2])[i2].k, c2[1])

=============================================================================
